---- MODULE Spec2Model ----
(***************************************************************************)
(* Flux Manager: the capture -> store -> broadcast pipeline.               *)
(*                                                                         *)
(*   RequestStorage (src/src/storage/RequestStorage.js): the bounded,      *)
(*   newest-first store.                                                   *)
(*   FluxManager (src/unnamed/part_000): intercept() wraps the response    *)
(*   sink of a transaction; the wrapped end builds the record, applies the *)
(*   capture gate, stores the record and broadcasts it to the WebSocket    *)
(*   clients.                                                              *)
(*                                                                         *)
(* JavaScript runs each handler to completion, so each handler is one      *)
(* atomic action.  The WebSocket library and the host framework are the    *)
(* environment: clients connect and close at any time, a send may raise.   *)
(***************************************************************************)
EXTENDS Integers, Sequences, FiniteSets, TLC

\* ------------------------------------------------------------------ bounds
\* Number of transactions the host serves.
MaxTx == 2
\* Number of direct addRequest calls made on a store.
MaxAdds == 4
\* Number of identifiers the callers of addRequest use.
MaxIds == 3
\* Largest capacity the store is constructed with.
MaxCap == 2
\* Number of WebSocket observers.
MaxObs == 2
\* Largest number of records in a store that is queried.
MaxLen == 3
\* Largest page number and largest page size passed to getPaginated.
MaxPage == 3
MaxLimit == 2
\* Number of write calls the host makes on one sink before it ends it.
MaxWrites == 1
\* Number of transactions whose sink calls are followed argument by argument.
MaxSinkTx == 1
\* Number of end calls the host makes on one sink.
MaxEnds == 2
\* Largest value the clock returns.
MaxTime == 1

Tx == 1..MaxTx
Observers == 1..MaxObs
Capacities == 0..MaxCap
SinkTx == 1..MaxSinkTx

\* --------------------------------------------------------------- constants
\* Status codes the host may finalize with: both sides of each boundary of
\* the capture gate.
StatusCodes == {299, 300, 399, 400}
\* Chunks the host passes to end: none (undefined) or a text chunk.
NoChunk == "undefined"
Chunks == {NoChunk, "a"}
\* The chunk the hosts of Spec finalize with.
SpecChunks == {"a"}
\* Argument lists (chunk, encoding, callback) the host calls write and end
\* with: an argument is undefined, a chunk, an encoding, a completion callback.
SinkArgs ==
  { <<NoChunk, NoChunk, NoChunk>>, <<"a", NoChunk, NoChunk>>,
    <<"a", "utf8", NoChunk>>, <<"a", "utf8", "cb">> }
\* What the original write returns (the backpressure flag), what the original
\* end returns (the sink), and the outcome of a call that raised.
WriteReturns == {"true", "false"}
EndReturn == "this"
Raised == "raised"
\* What res.getHeaders() does: it returns the headers, or it raises.
Headers == "headers"
HeaderSnapshots == {Headers, Raised}
\* req.body: absent, a string, an object JSON.stringify serializes, and an
\* object it raises on (a circular structure).
NoBody == "absent"
TextBody == "text"
ObjectBody == "object"
CircularBody == "circular"
ReqBodies == {NoBody, TextBody, ObjectBody, CircularBody}
\* Values Date.now() returns.
Times == 0..MaxTime

\* An optional value (a JavaScript value that may be undefined) is a sequence
\* of length 0 or 1.
Undefined == <<>>
Some(x) == <<x>>

\* options.route default
Route == <<"/", "f", "l", "u", "x", "-", "m", "a", "n", "a", "g", "e", "r">>
\* skipPaths of intercept
skipPaths ==
  { <<"/", ".", "w", "e", "l", "l", "-", "k", "n", "o", "w", "n", "/">>,
    <<"/", "f", "a", "v", "i", "c", "o", "n", ".", "i", "c", "o">>,
    <<"/", "_", "_", "w", "e", "b", "p", "a", "c", "k", "_", "h", "m", "r">>,
    <<"/", "s", "o", "c", "k", "j", "s", "-", "n", "o", "d", "e", "/">>,
    <<"/", "_", "n", "e", "x", "t", "/", "s", "t", "a", "t", "i", "c", "/">>,
    <<"/", "s", "t", "a", "t", "i", "c", "/">> }

\* req.method of the host's traffic
GET == <<"G", "E", "T">>

\* Request paths of the host's traffic: an application path, a path under the
\* route, a denylisted path.
AppPath == <<"/", "a", "p", "i">>
Paths ==
  { AppPath,
    Route \o <<"/", "a", "p", "i">>,
    <<"/", "f", "a", "v", "i", "c", "o", "n", ".", "i", "c", "o">> }

VARIABLES
  requests,       \* storage.requests: sequence of records, newest first
  maxRequests,    \* storage.maxRequests
  options,        \* FluxManager.options (the fields the model reads)
  isEnabled,      \* FluxManager.isEnabled
  server,         \* FluxManager.server is set
  wss,            \* FluxManager.wss is set
  clients,        \* wss.clients, in insertion (iteration) order
  readyState,     \* readyState of each observer's socket
  inbox,          \* messages each observer received
  now,            \* the value Date.now() returns
  phase,          \* position of each transaction
  requestData,    \* requestData captured by intercept, per transaction
  resStatusCode,  \* res.statusCode of each transaction's sink
  hostEnd,        \* chunks the host called end with, per transaction
  calls,          \* calls intercept and the wrapped end made, per transaction
  log,            \* history: every addRequest call, with the clients then open
  clearedAt,      \* history: length of log at the last clear
  reqPath,        \* parsedUrl.pathname of each transaction's request
  responseBody,   \* responseBody accumulated by each transaction's wrapper
  hostCalls,      \* history: calls the host made on each transaction's sink
  sinkCalls,      \* history: calls the original write and end received
  result          \* value returned by the last query of the store

vars == <<requests, maxRequests, options, isEnabled, server, wss, clients,
          readyState, inbox, now, phase, requestData, resStatusCode, hostEnd,
          calls, log, clearedAt, reqPath, responseBody, hostCalls, sinkCalls,
          result>>

storeVars == <<requests, maxRequests, log, clearedAt>>
queryVars == <<result>>
managerVars == <<options, isEnabled, server, wss>>
hubVars == <<clients, readyState, inbox>>
txVars == <<now, phase, requestData, resStatusCode, hostEnd, calls, reqPath,
           responseBody, hostCalls, sinkCalls>>

\* ------------------------------------------------------------- sequences
Range(s) == {s[i] : i \in DOMAIN s}

Min(a, b) == IF a < b THEN a ELSE b

\* String.prototype.startsWith
StartsWith(s, p) == Len(p) =< Len(s) /\ SubSeq(s, 1, Len(p)) = p

\* Array.prototype.slice(0, end) for end >= 0
Slice0(s, end) == SubSeq(s, 1, Min(end, Len(s)))

Max(a, b) == IF a > b THEN a ELSE b

\* the index Array.prototype.slice works with: a negative argument counts
\* from the end, and the result is clamped to 0..length
RelativeIndex(k, len) == IF k < 0 THEN Max(len + k, 0) ELSE Min(k, len)

\* Array.prototype.slice(start, end)
Slice(s, start, end) ==
  LET from == RelativeIndex(start, Len(s))
      to == RelativeIndex(end, Len(s))
  IN  [i \in 1..Max(to - from, 0) |-> s[from + i]]

\* String.prototype.includes
Includes(s, p) ==
  \E i \in 1..(Len(s) - Len(p) + 1) : SubSeq(s, i, i + Len(p) - 1) = p

\* toLowerCase of one character
LowerChar(c) ==
  CASE c = "A" -> "a" [] c = "E" -> "e" [] c = "G" -> "g" [] c = "O" -> "o"
    [] c = "P" -> "p" [] c = "S" -> "s" [] c = "T" -> "t" [] OTHER -> c

\* a toLowerCase that leaves the string as it is
ToLowerCaseIdentity(s) == s

\* String.prototype.toLowerCase
ToLowerCase(s) == [i \in 1..Len(s) |-> LowerChar(s[i])]

Digit(d) ==
  CASE d = 0 -> "0" [] d = 1 -> "1" [] d = 2 -> "2" [] d = 3 -> "3"
    [] d = 4 -> "4" [] d = 5 -> "5" [] d = 6 -> "6" [] d = 7 -> "7"
    [] d = 8 -> "8" [] d = 9 -> "9"

\* Number.prototype.toString of a non-negative integer
RECURSIVE NumberToString(_)
NumberToString(n) ==
  IF n < 10 THEN <<Digit(n)>>
  ELSE Append(NumberToString(n \div 10), Digit(n % 10))

\* A JavaScript value that is a number or a string.
Number(n) == [type |-> "number", n |-> n, s |-> <<>>]
String(s) == [type |-> "string", n |-> 0, s |-> s]

\* toString of a number or a string
ValueToString(v) == IF v.type = "number" THEN NumberToString(v.n) ELSE v.s

\* the test of if (v) on an optional number or string: undefined, 0 and ""
\* are falsy
Truthy(opt) ==
  /\ opt # Undefined
  /\ IF opt[1].type = "number" THEN opt[1].n # 0 ELSE opt[1].s # <<>>

\* The result of a JavaScript division a / b of integers, rounded up by
\* Math.ceil: a finite integer, Infinity or NaN.
Finite(n) == [kind |-> "finite", n |-> n]
Infinity == [kind |-> "Infinity", n |-> 0]
NaN == [kind |-> "NaN", n |-> 0]

\* Math.ceil(a / b) for a >= 0
CeilDiv(a, b) ==
  IF b > 0 THEN Finite((a + b - 1) \div b)
  ELSE IF b < 0 THEN Finite(0 - (a \div (0 - b)))
  ELSE IF a = 0 THEN NaN ELSE Infinity

\* ------------------------------------------------------- RequestStorage
\* an addRequest that never evicts
AddRequestNoEvict(reqs, cap, data) == <<data>> \o reqs

\* an addRequest that pushes instead of unshifting
AddRequestAtTail(reqs, cap, data) ==
  LET all == reqs \o <<data>>
  IN  IF Len(all) > cap THEN Slice0(all, cap) ELSE all

\* addRequest: unshift, then slice(0, maxRequests) when over the limit
AddRequest(reqs, cap, data) ==
  LET all == <<data>> \o reqs
  IN  IF Len(all) > cap THEN Slice0(all, cap) ELSE all

\* getAll
GetAll == requests

\* a getById that takes the id for a position
GetByIdAsIndex(id) ==
  IF id \in DOMAIN requests THEN Some(requests[id]) ELSE Undefined

\* getById: Array.prototype.find, undefined when no record has the id
GetById(id) ==
  IF \E i \in DOMAIN requests : requests[i].id = id
  THEN Some(requests[CHOOSE i \in DOMAIN requests :
                       /\ requests[i].id = id
                       /\ \A j \in 1..(i - 1) : requests[j].id # id])
  ELSE Undefined

\* a startIndex that takes the page number as 0-based
StartIndexZeroBased(page, limit) == page * limit

\* startIndex of getPaginated
StartIndex(page, limit) == (page - 1) * limit

\* getPaginated(page, limit)
GetPaginated(page, limit) ==
  LET startIndex == StartIndex(page, limit)
      endIndex == startIndex + limit
  IN  [requests |-> Slice(requests, startIndex, endIndex),
       total |-> Len(requests),
       page |-> page,
       limit |-> limit,
       totalPages |-> CeilDiv(Len(requests), limit)]

\* the five tests of filter on one record
MethodMatches(req, method) ==
  ToLowerCase(req.method) = ToLowerCase(method.s)

StatusMatches(req, status) ==
  /\ req.response # Undefined
  /\ NumberToString(req.response[1].statusCode) = ValueToString(status)

PathMatches(req, path) == Includes(req.path, path.s)

MinResponseTimeMatches(req, min) ==
  /\ req.response # Undefined
  /\ req.response[1].responseTime >= min.n

MaxResponseTimeMatches(req, max) ==
  /\ req.response # Undefined
  /\ req.response[1].responseTime =< max.n

\* filter(criteria): each criterion that is truthy filters the result of the
\* ones before it
Filter(criteria) ==
  LET f1 == IF Truthy(criteria.method)
            THEN SelectSeq(requests,
                           LAMBDA req : MethodMatches(req, criteria.method[1]))
            ELSE requests
      f2 == IF Truthy(criteria.status)
            THEN SelectSeq(f1, LAMBDA req : StatusMatches(req, criteria.status[1]))
            ELSE f1
      f3 == IF Truthy(criteria.path)
            THEN SelectSeq(f2, LAMBDA req : PathMatches(req, criteria.path[1]))
            ELSE f2
      f4 == IF Truthy(criteria.minResponseTime)
            THEN SelectSeq(f3, LAMBDA req :
                   MinResponseTimeMatches(req, criteria.minResponseTime[1]))
            ELSE f3
      f5 == IF Truthy(criteria.maxResponseTime)
            THEN SelectSeq(f4, LAMBDA req :
                   MaxResponseTimeMatches(req, criteria.maxResponseTime[1]))
            ELSE f4
  IN  f5

\* a tally that stops at 1
IncrementOnce(h, k) == IF k \in DOMAIN h THEN h ELSE h @@ (k :> 1)

\* h[k] = (h[k] || 0) + 1 on a histogram object h
Increment(h, k) ==
  IF k \in DOMAIN h THEN [h EXCEPT ![k] = @ + 1] ELSE h @@ (k :> 1)

\* the forEach pass of getStats over reqs, from the accumulators acc
RECURSIVE ForEachStats(_, _)
ForEachStats(reqs, acc) ==
  IF reqs = <<>> THEN acc
  ELSE LET req == Head(reqs)
           a1 == [acc EXCEPT !.methods = Increment(@, req.method)]
           a2 == IF req.response # Undefined
                 THEN [a1 EXCEPT !.statusCodes =
                         Increment(@, NumberToString(req.response[1].statusCode))]
                 ELSE a1
           a3 == IF req.response # Undefined
                    /\ req.response[1].responseTime # 0
                 THEN [a2 EXCEPT
                         !.totalResponseTime = @ + req.response[1].responseTime,
                         !.validResponseTimes = @ + 1]
                 ELSE a2
       IN  ForEachStats(Tail(reqs), a3)

\* Math.round(a / b) for b > 0: halves round up
Round(a, b) == (2 * a + b) \div (2 * b)

\* a total that counts the records with a response only
StatsTotalWithResponse ==
  Len(SelectSeq(requests, LAMBDA req : req.response # Undefined))

\* total of getStats
StatsTotal == Len(requests)

\* getStats()
GetStats ==
  LET acc == ForEachStats(requests,
                          [methods |-> <<>>, statusCodes |-> <<>>,
                           totalResponseTime |-> 0, validResponseTimes |-> 0])
  IN  [total |-> StatsTotal,
       methods |-> acc.methods,
       statusCodes |-> acc.statusCodes,
       averageResponseTime |->
         IF acc.validResponseTimes > 0
         THEN Round(acc.totalResponseTime, acc.validResponseTimes)
         ELSE 0]

\* What happens to the array a getAll caller holds: getAll returns
\* this.requests itself, so the caller's array is the store's array until the
\* store assigns a new one to this.requests.
IsHeldArray(res) ==
  res # Undefined /\ res[1].op = "getAll" /\ res[1].alias

\* this.requests.unshift(data) changes the array in place
AfterUnshift(res, data) ==
  IF IsHeldArray(res)
  THEN Some([res[1] EXCEPT !.value = <<data>> \o @])
  ELSE res

\* this.requests = (a new array) leaves the caller's array behind
AfterAssign(res) ==
  IF IsHeldArray(res) THEN Some([res[1] EXCEPT !.alias = FALSE]) ELSE res

\* the caller's array after addRequest(data) on reqs with limit cap
AfterAddRequest(res, reqs, cap, data) ==
  IF Len(reqs) + 1 > cap
  THEN AfterAssign(AfterUnshift(res, data))
  ELSE AfterUnshift(res, data)

\* ----------------------------------------------------------- FluxManager
\* requestId = uuidv4(): a fresh identifier per interception
RequestId(t) == t

\* a pass-through test without the denylist
IsSkippedRouteOnly(pathname) == StartsWith(pathname, options.route)

\* the two pass-through tests of intercept on the parsed pathname
IsSkipped(pathname) ==
  \/ StartsWith(pathname, options.route)
  \/ \E skipPath \in skipPaths : StartsWith(pathname, skipPath)

\* _captureBody: '' without a body, the body itself when it is a string, its
\* JSON text when it is an object, and the placeholder when JSON.stringify
\* raises
CaptureBody(body) ==
  CASE body = NoBody -> ""
    [] body = TextBody -> TextBody
    [] body = ObjectBody -> "{\"k\":1}"
    [] body = CircularBody -> "[Unable to capture body]"

\* requestData built by intercept
RequestData(t, pathname, body) ==
  [id |-> RequestId(t), method |-> GET, path |-> pathname,
   body |-> CaptureBody(body), startTime |-> now, response |-> Undefined]

\* if (chunk) responseBody += chunk.toString()
AppendChunk(body, chunk) == IF chunk # NoChunk THEN body \o <<chunk>> ELSE body

\* responseData built by the wrapped end
ResponseData(statusCode, body, startTime) ==
  [statusCode |-> statusCode, body |-> body, responseTime |-> now - startTime]

\* a capture gate that lets status 300 through
ShouldCaptureOffByOne(statusCode) == statusCode =< 300 \/ statusCode >= 400

\* shouldCapture
ShouldCapture(statusCode) == statusCode < 300 \/ statusCode >= 400

\* a completeData that leaves the response out
CompleteDataNoResponse(rd, responseData) == rd

\* completeData = {...requestData, response: responseData}
CompleteData(rd, responseData) ==
  [rd EXCEPT !.response = Some(responseData)]

\* JSON message of _broadcastToClients
Message(data) == [type |-> "new_request", data |-> data]

\* wss.clients.forEach(client => if OPEN then client.send(message)), where the
\* send of the clients in faulty raises: the loop stops at the first of them.
\* Returns the clients that were sent the message, in order, and the client
\* whose send raised (a set with at most one element).
RECURSIVE ForEachSend(_, _, _)
ForEachSend(cs, faulty, sent) ==
  IF cs = <<>> THEN [sent |-> sent, raised |-> {}]
  ELSE IF readyState[Head(cs)] # "OPEN" THEN ForEachSend(Tail(cs), faulty, sent)
  ELSE IF Head(cs) \in faulty THEN [sent |-> sent, raised |-> {Head(cs)}]
  ELSE ForEachSend(Tail(cs), faulty, Append(sent, Head(cs)))

\* a broadcast that sends to every client of the hub, whatever its state
BroadcastToAllClients(faulty) ==
  IF wss /\ isEnabled
  THEN [sent |-> clients, raised |-> {}]
  ELSE [sent |-> <<>>, raised |-> {}]

\* _broadcastToClients(data)
BroadcastToClients(faulty) ==
  IF wss /\ isEnabled
  THEN ForEachSend(clients, faulty, <<>>)
  ELSE [sent |-> <<>>, raised |-> {}]

\* a connection handler that replays the stored records to the new client
OnConnectionReplay(inb, o) ==
  [inb EXCEPT ![o] = @ \o [i \in 1..Len(requests) |-> Message(requests[i])]]

\* the connection handler of _setupWebSocket registers two listeners and
\* sends nothing to the new client
OnConnection(inb, o) == inb

\* -------------------------------------------------------------- history
\* the observers subscribed to the hub: its clients in the OPEN state
OpenClients == {o \in Range(clients) : readyState[o] = "OPEN"}

Call(op, to, chunk) == [op |-> op, to |-> to, chunk |-> chunk]

\* a call of write or end on a sink: its three arguments and its outcome
SinkCall(op, chunk, encoding, callback, ret) ==
  [op |-> op, chunk |-> chunk, encoding |-> encoding, callback |-> callback,
   ret |-> ret]

LogEntry(data, raised) == [rec |-> data, open |-> OpenClients, raised |-> raised]

\* ------------------------------------------------------------------ Init
\* new FluxManager(options)
Init ==
  /\ requests = <<>>
  /\ maxRequests \in Capacities
  /\ \E autoStart \in BOOLEAN, enableWebSocket \in BOOLEAN :
       /\ options = [route |-> Route, enableWebSocket |-> enableWebSocket,
                     maxRequests |-> maxRequests]
       /\ server = autoStart
       /\ wss = (autoStart /\ enableWebSocket)
  /\ isEnabled = TRUE
  /\ clients = <<>>
  /\ readyState = [o \in Observers |-> "CONNECTING"]
  /\ inbox = [o \in Observers |-> <<>>]
  /\ now = 0
  /\ phase = [t \in Tx |-> "idle"]
  /\ requestData = [t \in Tx |-> Undefined]
  /\ resStatusCode = [t \in Tx |-> 200]
  /\ hostEnd = [t \in Tx |-> <<>>]
  /\ calls = [t \in Tx |-> <<>>]
  /\ log = <<>>
  /\ clearedAt = 0
  /\ reqPath = [t \in Tx |-> Undefined]
  /\ responseBody = [t \in Tx |-> <<>>]
  /\ hostCalls = [t \in Tx |-> <<>>]
  /\ sinkCalls = [t \in Tx |-> <<>>]
  /\ result = Undefined

\* --------------------------------------------------------------- actions
\* an intercept that never calls next
CallNextNever(cs, next) == cs

\* next && next() / if (next) next(): cs is the sequence of calls made so far
CallNext(cs, next) == IF next THEN Append(cs, Call("next", 0, NoChunk)) ELSE cs

\* intercept(req, res, next): body is req.body, next tells whether the adapter
\* passed a next callback
Intercept(t, pathname, body, next) ==
  /\ phase[t] = "idle"
  /\ reqPath' = [reqPath EXCEPT ![t] = Some(pathname)]
  /\ IF ~isEnabled \/ IsSkipped(pathname)
     THEN /\ phase' = [phase EXCEPT ![t] = "passed"]
          /\ UNCHANGED requestData
     ELSE /\ phase' = [phase EXCEPT ![t] = "wrapped"]
          /\ requestData' =
               [requestData EXCEPT ![t] = Some(RequestData(t, pathname, body))]
  /\ calls' = [calls EXCEPT ![t] = CallNext(@, next)]
  /\ UNCHANGED <<storeVars, queryVars, managerVars, hubVars, now,
                 resStatusCode, hostEnd, responseBody, hostCalls, sinkCalls>>

\* the host calls the wrapped res.write(chunk, encoding, callback); the
\* original write returns ret
Write(t, chunk, encoding, callback, ret) ==
  /\ phase[t] = "wrapped"
  /\ Len(hostCalls[t]) < MaxWrites
  /\ responseBody' = [responseBody EXCEPT ![t] = AppendChunk(@, chunk)]
  /\ sinkCalls' = [sinkCalls EXCEPT ![t] =
                     Append(@, SinkCall("write", chunk, encoding, NoChunk, ret))]
  /\ hostCalls' = [hostCalls EXCEPT ![t] =
                     Append(@, SinkCall("write", chunk, encoding, callback, ret))]
  /\ UNCHANGED <<storeVars, queryVars, managerVars, hubVars, now, phase,
                 requestData, resStatusCode, hostEnd, calls, reqPath>>

\* the wrapped res.end(chunk, encoding, callback) with res.statusCode set to
\* statusCode: getHeaders is what res.getHeaders() does when the response
\* data is built, and the sends to the clients in faulty raise
EndCall(t, statusCode, getHeaders, chunk, encoding, callback, faulty) ==
  /\ resStatusCode' = [resStatusCode EXCEPT ![t] = statusCode]
  /\ hostEnd' = [hostEnd EXCEPT ![t] = Append(@, chunk)]
  /\ responseBody' = [responseBody EXCEPT ![t] = AppendChunk(@, chunk)]
  /\ LET completeData ==
           CompleteData(requestData[t][1],
                        ResponseData(statusCode, responseBody'[t],
                                     requestData[t][1].startTime))
         b == BroadcastToClients(faulty)
         sends == [i \in 1..Len(b.sent) |-> Call("send", b.sent[i], NoChunk)]
         returned ==
           /\ phase' = [phase EXCEPT ![t] = "ended"]
           /\ sinkCalls' = [sinkCalls EXCEPT ![t] =
                Append(@, SinkCall("end", chunk, encoding, NoChunk, EndReturn))]
           /\ hostCalls' = [hostCalls EXCEPT ![t] =
                Append(@, SinkCall("end", chunk, encoding, callback, EndReturn))]
         raised ==
           /\ phase' = [phase EXCEPT ![t] = "raised"]
           /\ hostCalls' = [hostCalls EXCEPT ![t] =
                Append(@, SinkCall("end", chunk, encoding, callback, Raised))]
           /\ UNCHANGED sinkCalls
     IN  IF getHeaders = Raised
         THEN /\ raised
              /\ UNCHANGED <<requests, result, log, inbox, calls>>
         ELSE IF ShouldCapture(statusCode)
         THEN /\ requests' = AddRequest(requests, maxRequests, completeData)
              /\ result' = AfterAddRequest(result, requests, maxRequests,
                                           completeData)
              /\ log' = Append(log, LogEntry(completeData, b.raised))
              /\ inbox' = [o \in Observers |->
                             IF o \in Range(b.sent)
                             THEN Append(inbox[o], Message(completeData))
                             ELSE inbox[o]]
              /\ IF b.raised = {}
                 THEN /\ returned
                      /\ calls' = [calls EXCEPT ![t] =
                           @ \o <<Call("addRequest", 0, NoChunk)>> \o sends
                             \o <<Call("originalEnd", 0, chunk)>>]
                 ELSE /\ raised
                      /\ calls' = [calls EXCEPT ![t] =
                           @ \o <<Call("addRequest", 0, NoChunk)>> \o sends]
         ELSE /\ returned
              /\ calls' = [calls EXCEPT ![t] =
                             Append(@, Call("originalEnd", 0, chunk))]
              /\ UNCHANGED <<requests, result, log, inbox>>
  /\ UNCHANGED <<maxRequests, clearedAt, managerVars, clients,
                 readyState, now, requestData, reqPath>>

\* the host sets res.statusCode and calls the wrapped res.end for the first
\* time
End(t, statusCode, getHeaders, chunk, encoding, callback, faulty) ==
  /\ phase[t] = "wrapped"
  /\ EndCall(t, statusCode, getHeaders, chunk, encoding, callback, faulty)

\* the host calls the wrapped res.end of a sink it has ended before: the
\* wrapper is still installed and runs again
EndAgain(t, statusCode, getHeaders, chunk, encoding, callback, faulty) ==
  /\ phase[t] \in {"ended", "raised"}
  /\ Len(hostEnd[t]) < MaxEnds
  /\ EndCall(t, statusCode, getHeaders, chunk, encoding, callback, faulty)

\* Date.now() returns v from now on: the wall clock advances, or is stepped
\* backwards
ClockStep(v) ==
  /\ v # now
  /\ now' = v
  /\ UNCHANGED <<storeVars, queryVars, managerVars, hubVars, phase,
                 requestData, resStatusCode, hostEnd, calls, reqPath,
                 responseBody, hostCalls, sinkCalls>>

\* the host sets res.statusCode and calls res.end(chunk, encoding, callback)
\* on the sink of a transaction intercept passed through: the sink is the
\* original one
EndPassed(t, statusCode, chunk, encoding, callback) ==
  /\ phase[t] = "passed"
  /\ phase' = [phase EXCEPT ![t] = "finished"]
  /\ resStatusCode' = [resStatusCode EXCEPT ![t] = statusCode]
  /\ sinkCalls' = [sinkCalls EXCEPT ![t] =
       Append(@, SinkCall("end", chunk, encoding, callback, EndReturn))]
  /\ hostCalls' = [hostCalls EXCEPT ![t] =
       Append(@, SinkCall("end", chunk, encoding, callback, EndReturn))]
  /\ UNCHANGED <<storeVars, queryVars, managerVars, hubVars, now, requestData,
                 hostEnd, calls, reqPath, responseBody>>

\* a client completes the handshake with the hub: the library adds it to
\* wss.clients and the connection handler runs
Connect(o) ==
  /\ wss
  /\ readyState[o] \in {"CONNECTING", "CLOSED"}
  /\ clients' = Append(clients, o)
  /\ readyState' = [readyState EXCEPT ![o] = "OPEN"]
  /\ inbox' = OnConnection(inbox, o)
  /\ UNCHANGED <<storeVars, queryVars, managerVars, txVars>>

\* a client's socket starts the closing handshake
BeginClose(o) ==
  /\ readyState[o] = "OPEN"
  /\ readyState' = [readyState EXCEPT ![o] = "CLOSING"]
  /\ UNCHANGED <<storeVars, queryVars, managerVars, txVars, clients, inbox>>

\* a client's socket closes: the library removes it from wss.clients
Closed(o) ==
  /\ readyState[o] \in {"OPEN", "CLOSING"}
  /\ clients' = SelectSeq(clients, LAMBDA c : c # o)
  /\ readyState' = [readyState EXCEPT ![o] = "CLOSED"]
  /\ UNCHANGED <<storeVars, queryVars, managerVars, txVars, inbox>>

\* setEnabled(enabled)
SetEnabled(enabled) ==
  /\ isEnabled' = enabled
  /\ UNCHANGED <<storeVars, queryVars, hubVars, txVars, options, server, wss>>

\* a clear that keeps the newest record
ClearRequestsKeepNewest ==
  /\ requests' = Slice0(requests, 1)
  /\ clearedAt' = Len(log)
  /\ result' = AfterAssign(result)
  /\ UNCHANGED <<maxRequests, log, managerVars, hubVars, txVars>>

\* clearRequests(): storage.clear()
ClearRequests ==
  /\ requests' = <<>>
  /\ clearedAt' = Len(log)
  /\ result' = AfterAssign(result)
  /\ UNCHANGED <<maxRequests, log, managerVars, hubVars, txVars>>

\* start(): a new server and, when enabled, a new hub with no client
Start ==
  /\ IF server
     THEN UNCHANGED <<server, wss, clients>>
     ELSE /\ server' = TRUE
          /\ IF options.enableWebSocket
             THEN wss' = TRUE /\ clients' = <<>>
             ELSE UNCHANGED <<wss, clients>>
  /\ UNCHANGED <<storeVars, queryVars, txVars, options, isEnabled, readyState,
                 inbox>>

\* Object.assign(this.options, options) for options that carry a maxRequests
\* or none
AssignOptions(target, maxRequestsOption) ==
  IF maxRequestsOption = Undefined
  THEN target
  ELSE [target EXCEPT !.maxRequests = maxRequestsOption[1]]

\* an attachTo that also resizes the store
AttachToResizing(maxRequestsOption) ==
  /\ options' = AssignOptions(options, maxRequestsOption)
  /\ maxRequests' = options'.maxRequests
  /\ UNCHANGED <<requests, log, clearedAt, queryVars, hubVars, txVars,
                 isEnabled, server, wss>>

\* attachTo(app, options): the options are merged into this.options and the
\* middleware is registered with the app; the store is not touched
AttachTo(maxRequestsOption) ==
  /\ options' = AssignOptions(options, maxRequestsOption)
  /\ UNCHANGED <<storeVars, queryVars, hubVars, txVars, isEnabled, server,
                 wss>>

\* a stop that closes the server and keeps the hub
StopServerOnly ==
  /\ server' = FALSE
  /\ UNCHANGED <<storeVars, queryVars, txVars, options, isEnabled, hubVars, wss>>

\* stop(): the server and the hub are dropped; the sockets of the hub's
\* clients are left as they are
Stop ==
  /\ server' = FALSE
  /\ wss' = FALSE
  /\ clients' = <<>>
  /\ UNCHANGED <<storeVars, queryVars, txVars, options, isEnabled, readyState,
                 inbox>>

Next ==
  \/ \E t \in Tx, pathname \in Paths : Intercept(t, pathname, NoBody, TRUE)
  \/ \E t \in Tx, statusCode \in StatusCodes, chunk \in SpecChunks,
        faulty \in SUBSET Range(clients) :
          End(t, statusCode, Headers, chunk, NoChunk, NoChunk, faulty)
  \/ \E o \in Observers : Connect(o)
  \/ \E o \in Observers : BeginClose(o)
  \/ \E o \in Observers : Closed(o)
  \/ \E enabled \in BOOLEAN : SetEnabled(enabled)
  \/ ClearRequests
  \/ Start
  \/ Stop

Spec == Init /\ [][Next]_vars

\* ------------------------------------------------- the store on its own
\* Records the callers of addRequest pass: with and without a response.
StoreRecords ==
  { [id |-> id, method |-> GET, path |-> AppPath, startTime |-> 0,
     response |-> response] :
      id \in 1..MaxIds,
      response \in {Undefined,
                    Some([statusCode |-> 200, body |-> <<>>,
                          responseTime |-> 0])} }

\* new RequestStorage(maxRequests), in a manager that was not started
InitStore ==
  /\ requests = <<>>
  /\ maxRequests \in Capacities
  /\ options = [route |-> Route, enableWebSocket |-> FALSE,
                maxRequests |-> maxRequests]
  /\ server = FALSE
  /\ wss = FALSE
  /\ isEnabled = TRUE
  /\ clients = <<>>
  /\ readyState = [o \in Observers |-> "CONNECTING"]
  /\ inbox = [o \in Observers |-> <<>>]
  /\ now = 0
  /\ phase = [t \in Tx |-> "idle"]
  /\ requestData = [t \in Tx |-> Undefined]
  /\ resStatusCode = [t \in Tx |-> 200]
  /\ hostEnd = [t \in Tx |-> <<>>]
  /\ calls = [t \in Tx |-> <<>>]
  /\ log = <<>>
  /\ clearedAt = 0
  /\ reqPath = [t \in Tx |-> Undefined]
  /\ responseBody = [t \in Tx |-> <<>>]
  /\ hostCalls = [t \in Tx |-> <<>>]
  /\ sinkCalls = [t \in Tx |-> <<>>]
  /\ result = Undefined

\* storage.addRequest(data), called directly
StoreAdd(data) ==
  /\ Len(log) < MaxAdds
  /\ requests' = AddRequest(requests, maxRequests, data)
  /\ log' = Append(log, LogEntry(data, {}))
  /\ result' = AfterAddRequest(result, requests, maxRequests, data)
  /\ UNCHANGED <<maxRequests, clearedAt, managerVars, hubVars, txVars>>

NextStore ==
  \/ \E data \in StoreRecords : StoreAdd(data)
  \/ ClearRequests

SpecStore == InitStore /\ [][NextStore]_vars

\* --------------------------------------------- the store and its readers
\* Every query records, as history, the number of addRequest calls made before
\* it (at).
\* storage.getAll() returns this.requests: the first query of the store
CallGetAll ==
  /\ result = Undefined
  /\ result' = Some([op |-> "getAll", at |-> Len(log), outcome |-> "returned",
                     value |-> GetAll, alias |-> TRUE])
  /\ UNCHANGED <<storeVars, managerVars, hubVars, txVars>>

\* storage.getById(id) returns: the first query of the store
CallGetById(id) ==
  /\ result = Undefined
  /\ result' = Some([op |-> "getById", at |-> Len(log), id |-> id,
                     outcome |-> "returned", value |-> GetById(id)])
  /\ UNCHANGED <<storeVars, managerVars, hubVars, txVars>>

\* storage.getStats() returns: the first query of the store
CallGetStats ==
  /\ result = Undefined
  /\ result' = Some([op |-> "getStats", at |-> Len(log),
                     outcome |-> "returned", value |-> GetStats])
  /\ UNCHANGED <<storeVars, managerVars, hubVars, txVars>>

NextRead ==
  \/ \E data \in StoreRecords : StoreAdd(data)
  \/ ClearRequests
  \/ CallGetAll
  \/ \E id \in 1..MaxIds : CallGetById(id)
  \/ CallGetStats

SpecRead == InitStore /\ [][NextRead]_vars

\* ------------------------------------- the store in an attached manager
\* Options attachTo is given: none, or a maxRequests.
AttachOptions == {Undefined} \cup {Some(c) : c \in Capacities}

NextAttach ==
  \/ \E data \in StoreRecords : StoreAdd(data)
  \/ ClearRequests
  \/ \E maxRequestsOption \in AttachOptions : AttachTo(maxRequestsOption)
  \/ \E enabled \in BOOLEAN : SetEnabled(enabled)
  \/ Start
  \/ Stop
  \/ CallGetStats

SpecAttach == InitStore /\ [][NextAttach]_vars

\* ------------------------------------------ the same-port query API
\* Paths (as Express hands them to the middleware mounted at the route, split
\* at the slashes) and methods of the requests made to the query API.
ApiPaths ==
  { <<"api", "requests">>, <<"api", "requests", "1">>, <<"api", "stats">>,
    <<"api", "other">> }
ApiMethods == {"GET", "DELETE"}

\* The methods class FluxManager defines.
FluxManagerMethods ==
  { "constructor", "start", "intercept", "_handleRequest", "_handleApiRequest",
    "_serveDynamicHTML", "_handleAPIRequest", "_getContentType", "_serveFile",
    "_parseQuery", "setupWebSocket", "_setupWebSocket", "_broadcastToClients",
    "_captureBody", "setEnabled", "clearRequests", "getRequests",
    "expressMiddleware", "koaMiddleware", "fastifyHook", "wrapHttpServer",
    "attachTo", "attach", "stop" }

\* req.path.replace('/api', ''): the path without its first 'api' segment
RECURSIVE ReplaceApi(_)
ReplaceApi(path) ==
  IF path = <<>> THEN <<>>
  ELSE IF Head(path) = "api" THEN Tail(path)
  ELSE <<Head(path)>> \o ReplaceApi(Tail(path))

\* the handler _handleAPIRequest dispatches to, or none (it answers 404)
ApiHandler(path, method) ==
  LET apiPath == ReplaceApi(path)
  IN  IF apiPath = <<"requests">> /\ method = "GET"
      THEN Some("_handleRequestsAPI")
      ELSE IF Len(apiPath) >= 2 /\ apiPath[1] = "requests" /\ method = "GET"
      THEN Some("_handleRequestDetailAPI")
      ELSE IF apiPath = <<"stats">> /\ method = "GET"
      THEN Some("_handleStatsAPI")
      ELSE IF apiPath = <<"requests">> /\ method = "DELETE"
      THEN Some("_handleClearRequestsAPI")
      ELSE Undefined

\* the middleware attachTo mounts at the route gets a request whose path
\* starts with /api/ and passes it to _handleAPIRequest: calling a handler the
\* class does not define raises a TypeError out of the middleware, before any
\* status was written; without a handler the answer is 404
HandleAPIRequest(path, method) ==
  /\ result = Undefined
  /\ LET handler == ApiHandler(path, method)
     IN  result' =
           Some([op |-> "api", at |-> Len(log), path |-> path,
                 method |-> method, handler |-> handler,
                 outcome |-> IF handler = Undefined THEN "returned"
                             ELSE IF handler[1] \in FluxManagerMethods
                             THEN "returned" ELSE Raised,
                 status |-> IF handler = Undefined THEN Some(404)
                            ELSE Undefined])
  /\ UNCHANGED <<storeVars, managerVars, hubVars, txVars>>

NextApi ==
  \/ \E data \in StoreRecords : StoreAdd(data)
  \/ ClearRequests
  \/ \E path \in ApiPaths, method \in ApiMethods : HandleAPIRequest(path, method)

SpecApi == InitStore /\ [][NextApi]_vars

\* -------------------------------------------------- the sink on its own
\* a started manager whose hub has one OPEN client
InitSink ==
  /\ requests = <<>>
  /\ maxRequests = MaxCap
  /\ options = [route |-> Route, enableWebSocket |-> TRUE,
                maxRequests |-> maxRequests]
  /\ server = TRUE
  /\ wss = TRUE
  /\ isEnabled = TRUE
  /\ clients = <<1>>
  /\ readyState = [o \in Observers |-> IF o = 1 THEN "OPEN" ELSE "CONNECTING"]
  /\ inbox = [o \in Observers |-> <<>>]
  /\ now = 0
  /\ phase = [t \in Tx |-> "idle"]
  /\ requestData = [t \in Tx |-> Undefined]
  /\ resStatusCode = [t \in Tx |-> 200]
  /\ hostEnd = [t \in Tx |-> <<>>]
  /\ calls = [t \in Tx |-> <<>>]
  /\ log = <<>>
  /\ clearedAt = 0
  /\ reqPath = [t \in Tx |-> Undefined]
  /\ responseBody = [t \in Tx |-> <<>>]
  /\ hostCalls = [t \in Tx |-> <<>>]
  /\ sinkCalls = [t \in Tx |-> <<>>]
  /\ result = Undefined

NextSink ==
  \/ \E t \in SinkTx, pathname \in Paths, body \in ReqBodies,
          next \in BOOLEAN :
       Intercept(t, pathname, body, next)
  \/ \E t \in SinkTx, args \in SinkArgs, ret \in WriteReturns :
       Write(t, args[1], args[2], args[3], ret)
  \/ \E t \in SinkTx, statusCode \in StatusCodes, args \in SinkArgs :
       \E getHeaders \in HeaderSnapshots :
         End(t, statusCode, getHeaders, args[1], args[2], args[3], {})
  \/ \E t \in SinkTx, statusCode \in StatusCodes, args \in SinkArgs :
       \E getHeaders \in HeaderSnapshots :
         EndAgain(t, statusCode, getHeaders, args[1], args[2], args[3], {})
  \/ \E v \in Times : ClockStep(v)
  \/ ClearRequests
  \/ \E t \in SinkTx, statusCode \in StatusCodes, args \in SinkArgs :
       EndPassed(t, statusCode, args[1], args[2], args[3])

SpecSink == InitSink /\ [][NextSink]_vars

\* ------------------------------------------- transactions in flight at once
\* Several transactions are intercepted and ended in any interleaving, while
\* the clock advances.
NextFlight ==
  \/ \E t \in Tx : Intercept(t, AppPath, NoBody, TRUE)
  \/ \E t \in Tx, statusCode \in StatusCodes, chunk \in SpecChunks :
       End(t, statusCode, Headers, chunk, NoChunk, NoChunk, {})
  \/ \E v \in Times : v > now /\ ClockStep(v)

SpecFlight == InitSink /\ [][NextFlight]_vars

\* ------------------------------------------------- queries of the store
\* What the stored records of a queried store are made of: methods in upper
\* and in lower case, two paths that differ in case, no response or one of two
\* responses.
QueryMethods == {GET, <<"p", "o", "s", "t">>}
QueryPaths == {AppPath, <<"/", "A", "p", "i">>}
QueryResponses ==
  { Undefined,
    Some([statusCode |-> 200, body |-> <<>>, responseTime |-> 0]),
    Some([statusCode |-> 404, body |-> <<>>, responseTime |-> 5]) }
QueryContents ==
  [method : QueryMethods, path : QueryPaths, response : QueryResponses]

\* The stores that n addRequest calls with fresh identifiers leave behind,
\* newest first, for n up to MaxLen.
QueryStores ==
  UNION { { [i \in 1..n |->
              [id |-> n + 1 - i, method |-> c[i].method, path |-> c[i].path,
               startTime |-> 0, response |-> c[i].response]] :
            c \in [1..n -> QueryContents] } : n \in 0..MaxLen }

\* Arguments of getPaginated: pages and page sizes, non-positive ones included.
Pages == -2..MaxPage
Limits == -1..MaxLimit

\* Arguments of filter: each criterion is absent (undefined) or given.  The
\* bounds of the response time include 0.
MinTimes == {0, 5}
MaxTimes == {0, 4}
FilterCriteria ==
  [method : {Undefined, Some(String(<<"g", "e", "t">>)),
             Some(String(<<"P", "O", "S", "T">>))},
   status : {Undefined, Some(Number(200)), Some(String(<<"2", "0", "0">>)),
             Some(Number(404)), Some(String(<<"4", "0", "4">>))},
   path : {Undefined, Some(String(<<"A", "p">>))},
   minResponseTime : {Undefined} \cup {Some(Number(m)) : m \in MinTimes},
   maxResponseTime : {Undefined} \cup {Some(Number(m)) : m \in MaxTimes}]

\* a store that holds up to MaxLen records, in a manager that was not started
InitQuery ==
  /\ requests \in QueryStores
  /\ maxRequests = MaxLen
  /\ options = [route |-> Route, enableWebSocket |-> FALSE,
                maxRequests |-> maxRequests]
  /\ server = FALSE
  /\ wss = FALSE
  /\ isEnabled = TRUE
  /\ clients = <<>>
  /\ readyState = [o \in Observers |-> "CONNECTING"]
  /\ inbox = [o \in Observers |-> <<>>]
  /\ now = 0
  /\ phase = [t \in Tx |-> "idle"]
  /\ requestData = [t \in Tx |-> Undefined]
  /\ resStatusCode = [t \in Tx |-> 200]
  /\ hostEnd = [t \in Tx |-> <<>>]
  /\ calls = [t \in Tx |-> <<>>]
  /\ log = [k \in 1..Len(requests) |->
              LogEntry(requests[Len(requests) + 1 - k], {})]
  /\ clearedAt = 0
  /\ reqPath = [t \in Tx |-> Undefined]
  /\ responseBody = [t \in Tx |-> <<>>]
  /\ hostCalls = [t \in Tx |-> <<>>]
  /\ sinkCalls = [t \in Tx |-> <<>>]
  /\ result = Undefined

\* a getPaginated that takes its page out of the store (splice for slice)
CallGetPaginatedSplice(page, limit) ==
  /\ result = Undefined
  /\ result' = Some([op |-> "getPaginated", page |-> page, limit |-> limit,
                     outcome |-> "returned",
                     value |-> GetPaginated(page, limit)])
  /\ requests' = SelectSeq(requests, LAMBDA req :
                    req \notin Range(GetPaginated(page, limit).requests))
  /\ UNCHANGED <<maxRequests, log, clearedAt, managerVars, hubVars, txVars>>

\* storage.getPaginated(page, limit) returns: the first query of the store
CallGetPaginated(page, limit) ==
  /\ result = Undefined
  /\ result' = Some([op |-> "getPaginated", page |-> page, limit |-> limit,
                     outcome |-> "returned",
                     value |-> GetPaginated(page, limit)])
  /\ UNCHANGED <<storeVars, managerVars, hubVars, txVars>>

\* storage.filter(criteria) returns: the first query of the store
CallFilter(criteria) ==
  /\ result = Undefined
  /\ result' = Some([op |-> "filter", criteria |-> criteria,
                     outcome |-> "returned", value |-> Filter(criteria)])
  /\ UNCHANGED <<storeVars, managerVars, hubVars, txVars>>

NextQuery ==
  \/ \E page \in Pages, limit \in Limits : CallGetPaginated(page, limit)
  \/ \E criteria \in FilterCriteria : CallFilter(criteria)
  \/ CallGetStats
  \/ CallGetAll
  \/ \E id \in 1..MaxIds : CallGetById(id)

SpecQuery == InitQuery /\ [][NextQuery]_vars

\* ---------------------------------------------------------------- claims
\* the records passed to addRequest since the last clear, oldest first
Inserted == [i \in 1..(Len(log) - clearedAt) |-> log[clearedAt + i].rec]

\* C1: whatever the capacity N the store was constructed with and whatever
\* addRequest and clear calls were made, the store holds between 0 and N
\* records.
C1_CapacityBound == 0 =< Len(requests) /\ Len(requests) =< maxRequests

\* a full store of capacity 2 after an insert that evicted a record
C1_Witness ==
  /\ maxRequests = 2
  /\ Len(Inserted) = 3
  /\ Len(requests) = 2

\* C2: after the inserts r1..rn made since the store was last empty, getAll
\* is rn, r(n-1), ..., r(n-k+1) with k = min(n, N): newest first, and the
\* n-k oldest records are the ones evicted.
C2_FifoNewestFirst ==
  LET n == Len(Inserted)
      k == Min(n, maxRequests)
  IN  GetAll = [i \in 1..k |-> Inserted[n + 1 - i]]

\* capacity 2 and three distinct inserts A, B, C: the store is C, B
C2_Witness ==
  /\ maxRequests = 2
  /\ Len(Inserted) = 3
  /\ Inserted[1].id = 1 /\ Inserted[2].id = 2 /\ Inserted[3].id = 3
  /\ Len(GetAll) = 2
  /\ GetAll[1] = Inserted[3] /\ GetAll[2] = Inserted[2]

\* ------------------------------------------------------------ the pipeline
Count(s, x) == Cardinality({i \in DOMAIN s : s[i] = x})

Finalized(t) == phase[t] \in {"ended", "raised"}

\* addRequest was called with a record of transaction t
Stored(t) == \E n \in DOMAIN log : log[n].rec.id = RequestId(t)

\* some observer received an event carrying a record of transaction t
Broadcast(t) ==
  \E o \in Observers : \E k \in DOMAIN inbox[o] :
    inbox[o][k].data.id = RequestId(t)

\* the messages of the inserts made while observer o was subscribed, in
\* order, but for those where the send to o itself raised
Expected(o) ==
  LET sel == SelectSeq(log, LAMBDA e : o \in e.open \ e.raised)
  IN  [i \in 1..Len(sel) |-> Message(sel[i].rec)]

\* the chunks the original end of transaction t's sink was invoked with
OriginalEnd(t) ==
  LET sel == SelectSeq(calls[t], LAMBDA c : c.op = "originalEnd")
  IN  [i \in 1..Len(sel) |-> sel[i].chunk]

\* C3: capture gate.  A transaction finalized with status s was passed to
\* the store if and only if s < 300 or s >= 400; for s in 300..399 nothing
\* is stored and no observer received an event for it.
C3_CaptureGate ==
  /\ \A t \in Tx :
       Finalized(t) =>
         /\ Stored(t) <=> (resStatusCode[t] < 300 \/ resStatusCode[t] >= 400)
         /\ resStatusCode[t] \in 300..399 => ~Broadcast(t)
  /\ \A i \in DOMAIN requests :
       \A j \in DOMAIN requests[i].response :
         requests[i].response[j].statusCode \notin 300..399

\* one transaction finalized with 300 and discarded, one finalized with 299,
\* stored and delivered to an observer
C3_Witness ==
  \E t1, t2 \in Tx, o \in Observers :
    /\ phase[t1] = "ended" /\ resStatusCode[t1] = 300
    /\ phase[t2] = "ended" /\ resStatusCode[t2] = 299
    /\ Len(log) = 1 /\ log[1].rec.id = RequestId(t2)
    /\ Len(requests) = 1
    /\ inbox[o] = <<Message(log[1].rec)>>

\* C4: every record in the store carries a complete response, the one its
\* transaction was finalized with; a transaction whose sink is wrapped and
\* not yet finalized is not in the store: getById on its id finds nothing.
C4_StoredIsFinalized ==
  /\ \A i \in DOMAIN requests :
       LET r == requests[i]
       IN  /\ r.response # Undefined
           /\ DOMAIN r.response[1] = {"statusCode", "body", "responseTime"}
           /\ \E t \in Tx :
                /\ RequestId(t) = r.id
                /\ Finalized(t)
                /\ r.response[1].statusCode = resStatusCode[t]
                /\ r.response[1].body = hostEnd[t]
                /\ r.response[1].responseTime >= 0
  /\ \A t \in Tx : phase[t] = "wrapped" => GetById(RequestId(t)) = Undefined

\* one transaction in flight while another is stored
C4_Witness ==
  \E t1, t2 \in Tx :
    /\ phase[t1] = "wrapped"
    /\ phase[t2] = "ended"
    /\ GetById(RequestId(t2)) # Undefined
    /\ GetById(RequestId(t1)) = Undefined

\* C5: every record added to the store by a finalization was received
\* exactly once by every observer that was subscribed at the insert (but for
\* an observer whose own send raised).
C5_ExactlyOnce ==
  \A n \in DOMAIN log : \A o \in log[n].open \ log[n].raised :
    Count(inbox[o], Message(log[n].rec)) = 1

\* C6: when the send to one observer raised during a publish, the record is
\* in the store and every other observer subscribed at the insert received
\* the record's event.
C6_FailureIsolation ==
  \A n \in DOMAIN log :
    log[n].raised # {} =>
      /\ (n = Len(log) /\ clearedAt < n /\ maxRequests > 0)
           => GetAll[1] = log[n].rec
      /\ \A o \in log[n].open \ log[n].raised :
           Count(inbox[o], Message(log[n].rec)) >= 1

\* C7: every call of the wrapped end has invoked the original end of the
\* sink, with the same chunk.
C7_OriginalEndInvoked == \A t \in Tx : OriginalEnd(t) = hostEnd[t]

\* C8: the original end of a sink is not ordered after the sends to the
\* observers: no send made by a finalization precedes its call of the
\* original end.
C8_Decoupled ==
  \A t \in Tx : \A i, j \in DOMAIN calls[t] :
    (calls[t][i].op = "send" /\ calls[t][j].op = "originalEnd") => j < i

\* C9: each observer received, in insertion order, exactly the records
\* inserted while it was subscribed (but for those where its own send
\* raised), and a finalization sends only when it inserts.
C9_PerObserverFifo ==
  /\ \A o \in Observers : inbox[o] = Expected(o)
  /\ \A t \in Tx :
       (\E i \in DOMAIN calls[t] : calls[t][i].op = "send")
         => \E i \in DOMAIN calls[t] : calls[t][i].op = "addRequest"

\* C10: no backlog replay.  Every event an observer received carries a
\* record that was inserted while the observer was subscribed, and the
\* observer received no more events than there were such inserts: connecting
\* delivers nothing.
C10_NoBacklogReplay ==
  \A o \in Observers :
    /\ \A k \in DOMAIN inbox[o] :
         \E n \in DOMAIN log :
           Message(log[n].rec) = inbox[o][k] /\ o \in log[n].open
    /\ Len(inbox[o]) =< Cardinality({n \in DOMAIN log : o \in log[n].open})

\* an observer that connected after a first record was stored, is subscribed,
\* and has received the second record only
C10_Witness ==
  \E o \in Observers :
    /\ Len(log) = 2 /\ Len(requests) = 2
    /\ o \notin log[1].open /\ o \in log[2].open
    /\ o \in OpenClients
    /\ inbox[o] = <<Message(log[2].rec)>>

\* the record carried by the last event observer o received is the one
\* getById returns for its id
LastEventRetrievable(o) ==
  LET m == inbox[o][Len(inbox[o])]
  IN  GetById(m.data.id) = Some(m.data)

\* C11 as stated: right after a finalization delivered an event to an
\* observer, getById on the id the event carries returns the record of the
\* event; only an observer in the OPEN state receives, and only the send to an
\* OPEN observer can raise.
C11_EventRetrievable ==
  /\ [][\A o \in Observers :
          inbox'[o] # inbox[o] =>
            readyState[o] = "OPEN" /\ LastEventRetrievable(o)']_vars
  /\ [](\A n \in DOMAIN log : log[n].raised \subseteq log[n].open)

\* C11, amended: in a store of capacity at least 1, right after a
\* finalization delivered an event to an observer, getById on the id the
\* event carries returns the record of the event; whatever the capacity, only
\* an observer in the OPEN state receives, and only the send to an OPEN
\* observer can raise.
C11_EventRetrievableCap1 ==
  /\ [][\A o \in Observers :
          inbox'[o] # inbox[o] =>
            /\ readyState[o] = "OPEN"
            /\ maxRequests >= 1 => LastEventRetrievable(o)']_vars
  /\ [](\A n \in DOMAIN log : log[n].raised \subseteq log[n].open)

\* a publish made while one client of the hub was OPEN and another CLOSING:
\* the OPEN one holds the event of the record at the head of the store, the
\* CLOSING one holds nothing
C11_Witness ==
  \E o1, o2 \in Observers :
    /\ maxRequests >= 1
    /\ Len(log) = 1 /\ clearedAt = 0
    /\ log[1].open = {o1}
    /\ o2 \in Range(clients) /\ readyState[o2] = "CLOSING"
    /\ inbox[o2] = <<>>
    /\ inbox[o1] = <<Message(log[1].rec)>>
    /\ GetById(log[1].rec.id) = Some(log[1].rec)

\* C14: while monitoring is disabled (from a setEnabled(false) until the next
\* setEnabled(true)) no step passes a record to the store, whether its
\* transaction was intercepted before or after the disable.
C14_DisabledAddsNothing ==
  [][(~isEnabled /\ ~isEnabled') =>
       (Len(log') = Len(log) /\ Len(requests') =< Len(requests))]_vars

\* C12: the wrapper is transparent.  The original write and end of a wrapped
\* sink received exactly the calls the host made on the sink, in order, each
\* with the same chunk, encoding and callback, and each call returned to the
\* host what the original returned.
C12_Transparent ==
  \A t \in Tx : phase[t] \in {"wrapped", "ended"} => sinkCalls[t] = hostCalls[t]

\* C13: a transaction whose request path is under the configured route, or
\* starts with a denylisted path, is passed through: no wrapper is installed
\* (the original sink receives the host's calls as they are), and whatever
\* status it is finalized with, no record of it is stored or broadcast.
C13_SkippedPassThrough ==
  \A t \in Tx : \A pathname \in Range(reqPath[t]) :
    (\/ StartsWith(pathname, options.route)
     \/ \E skipPath \in skipPaths : StartsWith(pathname, skipPath))
    => /\ phase[t] \in {"passed", "finished"}
       /\ requestData[t] = Undefined
       /\ sinkCalls[t] = hostCalls[t]
       /\ ~Stored(t) /\ ~Broadcast(t)
       /\ \A i \in DOMAIN requests : requests[i].path # pathname

\* a denylisted request finalized with status 299 while monitoring is enabled
\* and an observer is OPEN: the store and the observer's inbox are empty
C13_Witness ==
  \E t \in Tx, o \in Observers :
    /\ isEnabled /\ o \in OpenClients
    /\ reqPath[t] =
         Some(<<"/", "f", "a", "v", "i", "c", "o", "n", ".", "i", "c", "o">>)
    /\ phase[t] = "finished" /\ resStatusCode[t] = 299
    /\ Len(hostCalls[t]) = 1
    /\ requests = <<>> /\ log = <<>> /\ inbox[o] = <<>>

\* ------------------------------------------------------------ the queries
\* the last query was getPaginated
IsPage == result # Undefined /\ result[1].op = "getPaginated"

\* the last query was filter
IsFilter == result # Undefined /\ result[1].op = "filter"

\* C15: for page >= 1 and size >= 1, getPaginated returns the records at the
\* 0-based positions (page-1)*size up to page*size (excluded) that exist, in
\* store order, so at most size of them, with total the length of the store,
\* the page and the size given, and totalPages = ceil(total / size).
C15_PageSlice ==
  (IsPage /\ result[1].page >= 1 /\ result[1].limit >= 1) =>
    LET page == result[1].page
        size == result[1].limit
        v == result[1].value
        first == (page - 1) * size
        k == Max(0, Min(size, Len(requests) - first))
    IN  /\ v.requests = [i \in 1..k |-> requests[first + i]]
        /\ Len(v.requests) =< size
        /\ v.total = Len(requests)
        /\ v.page = page /\ v.limit = size
        /\ v.totalPages.kind = "finite"
        /\ v.totalPages.n * size >= v.total
        /\ (v.totalPages.n - 1) * size < v.total
        /\ v.totalPages.n >= 0

\* page 2 of size 2 of a store of 3 records: the oldest record alone
C15_Witness ==
  /\ IsPage /\ result[1].page = 2 /\ result[1].limit = 2
  /\ Len(requests) = 3
  /\ result[1].value.requests = <<requests[3]>>
  /\ result[1].value.totalPages = Finite(2)

\* C16: for size >= 1 and a page outside 1..totalPages (page 0, a negative
\* page, a page beyond the last), getPaginated returns an empty slice and
\* total equal to the length of the store.
C16_OutOfRangeEmpty ==
  (IsPage /\ result[1].limit >= 1) =>
    LET page == result[1].page
        size == result[1].limit
        v == result[1].value
        totalPages == (Len(requests) + size - 1) \div size
    IN  (page < 1 \/ page > totalPages) =>
          /\ v.requests = <<>>
          /\ v.total = Len(requests)

\* C17: getPaginated with a size of 0 or less does not return a page: it
\* signals an invalid argument.
C17_InvalidSize ==
  (IsPage /\ result[1].limit =< 0) => result[1].outcome = "invalid-argument"

\* two characters that are the same letter in either case
SameLetter(c, d) ==
  \/ c = d
  \/ {c, d} \in {{"A", "a"}, {"E", "e"}, {"G", "g"}, {"O", "o"}, {"P", "p"},
                 {"S", "s"}, {"T", "t"}}

EqualIgnoringCase(a, b) ==
  Len(a) = Len(b) /\ \A i \in 1..Len(a) : SameLetter(a[i], b[i])

DigitValue(c) ==
  CASE c = "0" -> 0 [] c = "1" -> 1 [] c = "2" -> 2 [] c = "3" -> 3
    [] c = "4" -> 4 [] c = "5" -> 5 [] c = "6" -> 6 [] c = "7" -> 7
    [] c = "8" -> 8 [] c = "9" -> 9

\* the number a decimal string denotes
RECURSIVE Decimal(_)
Decimal(s) ==
  IF s = <<>> THEN 0
  ELSE 10 * Decimal(SubSeq(s, 1, Len(s) - 1)) + DigitValue(s[Len(s)])

\* the status a status criterion asks for
StatusValue(v) == IF v.type = "number" THEN v.n ELSE Decimal(v.s)

HasResponse(req) == req.response # Undefined

\* the record satisfies every criterion that is given
Satisfies(req, criteria) ==
  /\ criteria.method # Undefined =>
       EqualIgnoringCase(req.method, criteria.method[1].s)
  /\ criteria.status # Undefined =>
       /\ HasResponse(req)
       /\ req.response[1].statusCode = StatusValue(criteria.status[1])
  /\ criteria.path # Undefined => Includes(req.path, criteria.path[1].s)
  /\ criteria.minResponseTime # Undefined =>
       /\ HasResponse(req)
       /\ req.response[1].responseTime >= criteria.minResponseTime[1].n
  /\ criteria.maxResponseTime # Undefined =>
       /\ HasResponse(req)
       /\ req.response[1].responseTime =< criteria.maxResponseTime[1].n

\* the criteria given in a filter call
Given(criteria) == {k \in DOMAIN criteria : criteria[k] # Undefined}

\* C18: filter returns exactly the stored records that satisfy every
\* criterion given, in store order; a criterion that is not given constrains
\* nothing, and filter without criteria returns the whole store.
C18_FilterAnd ==
  IsFilter =>
    result[1].value =
      SelectSeq(requests, LAMBDA req : Satisfies(req, result[1].criteria))

\* C19: filter with a method m and a status s (a number or its decimal
\* string) returns only records whose method is m ignoring case and whose
\* response has status s, and exactly those when nothing else is given; a
\* record without a response is never returned when a status is given.
C19_MethodAndStatus ==
  IsFilter =>
    LET criteria == result[1].criteria
        v == result[1].value
        matches(req) ==
          /\ EqualIgnoringCase(req.method, criteria.method[1].s)
          /\ HasResponse(req)
          /\ req.response[1].statusCode = StatusValue(criteria.status[1])
    IN  /\ {"method", "status"} \subseteq Given(criteria) =>
             \A i \in DOMAIN v : matches(v[i])
        /\ Given(criteria) = {"method", "status"} =>
             v = SelectSeq(requests, matches)
        /\ "status" \in Given(criteria) => \A i \in DOMAIN v : HasResponse(v[i])

\* filter({method: "get", status: "200"}) on a store that holds a GET with
\* status 200, a GET without a response and a post with status 200 returns
\* the first alone
C19_Witness ==
  /\ IsFilter
  /\ Given(result[1].criteria) = {"method", "status"}
  /\ result[1].criteria.method = Some(String(<<"g", "e", "t">>))
  /\ result[1].criteria.status = Some(String(<<"2", "0", "0">>))
  /\ Len(requests) = 3
  /\ requests[1].method = GET /\ ~HasResponse(requests[1])
  /\ requests[2].method = GET /\ HasResponse(requests[2])
  /\ requests[2].response[1].statusCode = 200
  /\ requests[3].method # GET /\ HasResponse(requests[3])
  /\ requests[3].response[1].statusCode = 200
  /\ result[1].value = <<requests[2]>>

\* C20: filter with a lower bound m >= 0 on the response time, 0 included,
\* returns exactly the records that have a response of duration >= m, filter
\* with an upper bound m exactly those of duration =< m; a record without a
\* response is never returned when a bound is given.
C20_ResponseTimeBounds ==
  IsFilter =>
    LET criteria == result[1].criteria
        v == result[1].value
    IN  /\ Given(criteria) = {"minResponseTime"} =>
             v = SelectSeq(requests, LAMBDA req :
                   /\ HasResponse(req)
                   /\ req.response[1].responseTime
                        >= criteria.minResponseTime[1].n)
        /\ Given(criteria) = {"maxResponseTime"} =>
             v = SelectSeq(requests, LAMBDA req :
                   /\ HasResponse(req)
                   /\ req.response[1].responseTime
                        =< criteria.maxResponseTime[1].n)
        /\ Given(criteria) \cap {"minResponseTime", "maxResponseTime"} # {} =>
             \A i \in DOMAIN v : HasResponse(v[i])

\* -------------------------------------------------- the store's readers
\* the last query was getStats, getById, getAll
IsStats == result # Undefined /\ result[1].op = "getStats"
IsGetById == result # Undefined /\ result[1].op = "getById"
IsGetAll == result # Undefined /\ result[1].op = "getAll"

\* the step is a query: only a query turns result from undefined to a value
IsQueryStep == result = Undefined /\ result' # Undefined

StatsTotalIsLength == result[1].value.total = Len(GetAll)

\* C21: whatever addRequest and clear calls were made before, the total of
\* the statistics a getStats call returns is the length of getAll at the call.
C21_StatsTotal ==
  [][(IsQueryStep /\ IsStats') => StatsTotalIsLength']_vars

\* getStats called after three inserts into a store of capacity 2: total 2
C21_Witness ==
  /\ IsStats
  /\ maxRequests = 2 /\ clearedAt = 0
  /\ result[1].at = 3 /\ Len(log) = 3
  /\ result[1].value.total = 2

EmptyStats ==
  [total |-> 0, methods |-> <<>>, statusCodes |-> <<>>,
   averageResponseTime |-> 0]

StoreIsEmpty ==
  /\ GetAll = <<>>
  /\ \A id \in 1..MaxIds : GetById(id) = Undefined
  /\ GetStats = EmptyStats

\* C22: right after clear, whatever the store held, getAll is empty, getById
\* finds no id, and getStats is total 0, empty histograms, average 0.
C22_ClearEmpties == [][ClearRequests => StoreIsEmpty']_vars

\* getStats called after a clear of a store that held two records
C22_Witness ==
  /\ IsStats
  /\ maxRequests = 2
  /\ Len(log) = 2 /\ clearedAt = 2 /\ result[1].at = 2
  /\ requests = <<>>
  /\ result[1].value = EmptyStats

GetByIdIsRight ==
  LET id == result[1].id
      v == result[1].value
  IN  /\ result[1].outcome = "returned"
      /\ IF \E i \in DOMAIN requests : requests[i].id = id
         THEN /\ v # Undefined
              /\ v[1].id = id
              /\ \E i \in DOMAIN requests : requests[i] = v[1]
         ELSE v = Undefined

\* C25: getById(id) returns a stored record with that id when the store
\* holds one, and undefined, without raising, when it holds none: so too for
\* an id that was evicted or cleared.
C25_GetById ==
  [][(IsQueryStep /\ IsGetById') => GetByIdIsRight']_vars

\* getById of an id that was inserted and then evicted from a store of
\* capacity 1 that was never cleared: undefined
C25_Witness ==
  /\ IsGetById
  /\ maxRequests = 1 /\ clearedAt = 0
  /\ Len(log) = 2 /\ result[1].at = 2
  /\ log[1].rec.id = result[1].id /\ log[2].rec.id # result[1].id
  /\ result[1].value = Undefined

\* C28: the sequence a getAll call returned never shows more records than
\* the capacity, also when it is inspected after later inserts: it is the
\* store as it was before or after each addRequest, never in between.
C28_ReadConsistency == IsGetAll => Len(result[1].value) =< maxRequests

\* the stored records that have a response
WithResponse == SelectSeq(requests, HasResponse)

RECURSIVE SumOfDurations(_)
SumOfDurations(reqs) ==
  IF reqs = <<>> THEN 0
  ELSE Head(reqs).response[1].responseTime + SumOfDurations(Tail(reqs))

\* C23: averageResponseTime of getStats is the mean duration of the stored
\* records that have a response, those of duration 0 included, rounded to a
\* nearest integer; it is 0 when no stored record has a response.
C23_AverageResponseTime ==
  IsStats =>
    LET avg == result[1].value.averageResponseTime
        sum == SumOfDurations(WithResponse)
        count == Len(WithResponse)
    IN  IF count = 0 THEN avg = 0
        ELSE /\ 2 * sum - count =< 2 * avg * count
             /\ 2 * avg * count =< 2 * sum + count

\* C24: in the statistics getStats returns, methods has one entry per method
\* in the store, the number of stored records with that method, and
\* statusCodes one entry per status of a stored response, the number of
\* stored records with a response of that status.
C24_Histograms ==
  IsStats =>
    LET v == result[1].value
        methods == {requests[i].method : i \in DOMAIN requests}
        statuses == {WithResponse[i].response[1].statusCode :
                       i \in DOMAIN WithResponse}
    IN  /\ DOMAIN v.methods = methods
        /\ \A m \in methods :
             v.methods[m] =
               Cardinality({i \in DOMAIN requests : requests[i].method = m})
        /\ DOMAIN v.statusCodes = {NumberToString(st) : st \in statuses}
        /\ \A st \in statuses :
             v.statusCodes[NumberToString(st)] =
               Cardinality({i \in DOMAIN WithResponse :
                              WithResponse[i].response[1].statusCode = st})

\* getStats of a store that holds two GET and one post, two of the three
\* with a response of status 200 and one without a response
C24_Witness ==
  /\ IsStats
  /\ Len(requests) = 3 /\ Len(WithResponse) = 2
  /\ result[1].value.methods = (GET :> 2) @@ (<<"p", "o", "s", "t">> :> 1)
  /\ result[1].value.statusCodes = (<<"2", "0", "0">> :> 2)

\* ------------------------------------------- the life of a transaction
\* the store holds a record with the identifier id
Held(id) == \E i \in DOMAIN requests : requests[i].id = id

\* C27: each intercepted transaction is stored at most once and broadcast at
\* most once, however often the host calls end on its sink: the identifiers
\* of the stored records are pairwise distinct, at most one record was ever
\* passed to the store for a transaction, and every observer received at most
\* one new_request event for it.
C27_AtMostOnce ==
  /\ \A i, j \in DOMAIN requests :
       requests[i].id = requests[j].id => i = j
  /\ \A t \in Tx :
       /\ Cardinality({n \in DOMAIN log : log[n].rec.id = RequestId(t)}) =< 1
       /\ \A o \in Observers :
            Cardinality({i \in DOMAIN inbox[o] :
                           /\ inbox[o][i].type = "new_request"
                           /\ inbox[o][i].data.id = RequestId(t)}) =< 1

\* C26: eviction and clear are terminal.  An identifier that was stored and
\* that the store no longer holds is not held after any further step.
C26_LeftIsTerminal ==
  [][\A t \in Tx :
       (Stored(t) /\ ~Held(RequestId(t))) => ~Held(RequestId(t))']_vars

\* C29: the duration of a record passed to the store is the clock reading at
\* the end call minus the reading at interception, and 0 when the clock was
\* stepped backwards in between.
C29_DurationClamped ==
  [][Len(log') = Len(log) + 1 =>
       LET r == log'[Len(log')].rec
       IN  r.response # Undefined =>
             r.response[1].responseTime = Max(now - r.startTime, 0)]_vars

\* C30: a failure while capturing does not surface and does not stop the
\* transaction.  No call the host makes on a wrapped sink raises, every end
\* call reaches the original end, and every transaction ended with a status
\* the capture gate lets through was passed to the store, with the request
\* body recorded as a text.
C30_CaptureFailureDegrades ==
  \A t \in Tx :
    /\ \A i \in DOMAIN hostCalls[t] : hostCalls[t][i].ret # Raised
    /\ Len(OriginalEnd(t)) = Len(hostEnd[t])
    /\ (Finalized(t) /\ ShouldCapture(resStatusCode[t]))
         => Stored(t)
    /\ requestData[t] # Undefined =>
         requestData[t][1].body \in {CaptureBody(b) : b \in ReqBodies}

\* ------------------------------------------------- the next continuation
\* the number of times intercept called the next continuation of transaction t
NextCalls(t) == Len(SelectSeq(calls[t], LAMBDA c : c.op = "next"))

Connected == IF wss THEN OpenClients ELSE {}

\* C31: clearRequests empties the store and every connected observer
\* receives an event about the clear.
C31_ClearBroadcast ==
  [][ClearRequests =>
       /\ requests' = <<>>
       /\ \A o \in Connected : Len(inbox'[o]) = Len(inbox[o]) + 1]_vars

\* the sends made in the step, over all transactions
NewSends ==
  UNION { { calls'[t][i].to : i \in { j \in (Len(calls[t]) + 1)..Len(calls'[t]) :
                                        calls'[t][j].op = "send" } } : t \in Tx }

\* C32: in a publish (a step that passes a record to the store), an observer
\* that is not open receives nothing and send is not called on it, and when no
\* send raises every open client of the hub receives the record's event.
C32_OnlyOpenReceive ==
  [][Len(log') = Len(log) + 1 =>
       LET e == log'[Len(log')]
       IN  /\ \A o \in Observers \ e.open : inbox'[o] = inbox[o]
           /\ NewSends \subseteq e.open
           /\ (e.raised = {} /\ wss /\ isEnabled) =>
                \A o \in e.open : inbox'[o] = Append(inbox[o], Message(e.rec))]_vars

\* the hub has a closing client and, after it in the client list, an open one;
\* the one record published reached the open client only
C32_Witness ==
  \E i, j \in DOMAIN clients :
    /\ i < j
    /\ readyState[clients[i]] = "CLOSING"
    /\ readyState[clients[j]] = "OPEN"
    /\ Len(log) = 1
    /\ log[1].open = {clients[j]}
    /\ inbox[clients[i]] = <<>>
    /\ inbox[clients[j]] = <<Message(log[1].rec)>>

\* C37: start while a server is running creates nothing new; stop leaves
\* neither server nor hub; and while there is no hub, a finalization returns
\* normally, delivers to no observer, and is stored when its status passes the
\* capture gate.
C37_Lifecycle ==
  [][/\ (server /\ Start) => UNCHANGED <<server, wss, clients>>
     /\ Stop => (~server' /\ ~wss')
     /\ \A t \in Tx :
          (~wss /\ phase[t] = "wrapped" /\ phase'[t] # "wrapped") =>
            /\ phase'[t] = "ended"
            /\ inbox' = inbox
            /\ ShouldCapture(resStatusCode'[t]) =>
                 /\ Len(log') = Len(log) + 1
                 /\ log'[Len(log')].rec.id = RequestId(t)
                 /\ maxRequests > 0 => requests'[1].id = RequestId(t)]_vars

\* the manager was stopped while an observer's socket was open; a record was
\* stored and the observer received nothing
C37_Witness ==
  /\ ~server /\ ~wss
  /\ \E o \in Observers : readyState[o] = "OPEN" /\ inbox[o] = <<>>
  /\ Len(log) = 1 /\ Len(requests) = 1
  /\ log[1].open = {}

\* ------------------------------------------------------ reads are reads
\* C36: getAll, getById, getPaginated, filter and getStats leave the stored
\* sequence (contents and order) and the capacity as they were, for every
\* argument.
C36_ReadsLeaveStore ==
  [][IsQueryStep => (requests' = requests /\ maxRequests' = maxRequests)]_vars

\* the first page of size 2 was read from a store of three records, and the
\* store holds the three records as they were inserted
C36_Witness ==
  /\ IsPage /\ result[1].page = 1 /\ result[1].limit = 2
  /\ Len(result[1].value.requests) = 2
  /\ Len(requests) = 3
  /\ requests = [i \in 1..3 |-> log[4 - i].rec]

\* ------------------------------------------------- the capacity is fixed
\* C33: no operation changes the capacity the store enforces: not addRequest,
\* clear, setEnabled, start or stop, and not attachTo with options that carry
\* a different maxRequests.
C33_CapacityFixed == [][maxRequests' = maxRequests]_vars

\* attachTo was given a maxRequests of 2 in a manager constructed with
\* capacity 1; two records were passed to the store and it holds one
C33_Witness ==
  /\ options.maxRequests = 2 /\ maxRequests = 1
  /\ Len(log) = 2 /\ clearedAt = 0
  /\ Len(requests) = 1

\* ------------------------------------------------------ finalization order
\* the record with identifier a was passed to the store before the one with
\* identifier b
EndedBefore(a, b) ==
  \E m, n \in DOMAIN log : m < n /\ log[m].rec.id = a /\ log[n].rec.id = b

\* C35: the store is ordered by finalization.  Of two stored records the one
\* nearer the head was finalized later, whichever was intercepted first, and
\* every transaction finalized with a status the capture gate lets through is
\* in the store (the capacity is not below the number of transactions).
C35_FinalizationOrder ==
  /\ \A i, j \in DOMAIN requests :
       i < j => EndedBefore(requests[j].id, requests[i].id)
  /\ \A t \in Tx :
       (Finalized(t) /\ ShouldCapture(resStatusCode[t])) => Held(RequestId(t))

\* the record at the head of the store belongs to the transaction that was
\* intercepted first (its start time is the earlier one) and ended last
C35_Witness ==
  /\ Len(requests) = 2
  /\ requests[1].startTime < requests[2].startTime
  /\ EndedBefore(requests[2].id, requests[1].id)

\* ------------------------------------------------- the same-port query API
\* the last query was a request to the same-port query API that one of the
\* four handlers serves
IsApi == result # Undefined /\ result[1].op = "api" /\ result[1].handler # Undefined

\* C38: a list, get-by-id, stats or clear request to the same-port query API
\* is dispatched to a handler that answers it, and does not end in an
\* unhandled error; a clear request answered while no insert followed leaves
\* the store empty.
C38_SamePortApi ==
  IsApi =>
    /\ result[1].outcome = "returned"
    /\ result[1].status \in {Some(200), Some(404)}
    /\ (result[1].handler = Some("_handleClearRequestsAPI")
          /\ result[1].at = Len(log)) => requests = <<>>

====
